---- MODULE Spec2Model ----
(***************************************************************************)
(* Model of TaskD/task_d.py: the week-42 energy report.                    *)
(*                                                                         *)
(*   main:  rows = read_data(file); drop rows[0] if is_header_row;         *)
(*          daily = compute_daily_totals(rows); print_report(daily)        *)
(*                                                                         *)
(* The input is the sequence of rows csv.reader yields for the file (the   *)
(* delimiter sniffing and the splitting of a line into cells are the csv   *)
(* library's and are not modelled).  A cell is a string.  The library      *)
(* functions the program applies to a cell (str.strip, str.replace,        *)
(* datetime.strptime, datetime.fromisoformat, float) are tabulated on the  *)
(* cell texts the inputs are built from; the program's own functions are   *)
(* composed from them as the source composes them.  A float is an exact    *)
(* rational <<numerator, denominator>> in lowest terms.  A dict is the     *)
(* sequence of its items in insertion order, as a Python dict iterates.    *)
(***************************************************************************)
EXTENDS Integers, Sequences, FiniteSets, TLC

VARIABLES file, pc, rows, i, totals_wh, daily_totals, output, error

vars == <<file, pc, rows, i, totals_wh, daily_totals, output, error>>

\* Longest input file, in rows yielded by csv.reader.
MaxRows == 3

\* task_d.py:101  "if len(row) < 7: continue"
MinFields == 7

\* task_d.py:130  "vals[0] / 1000.0"
WhPerKwh == 1000

\* The six measurement channels: columns 1..6 of a row (0-indexed).
Channels == 1..6

(***************************************************************************)
(* Floats, as exact rationals.                                             *)
(***************************************************************************)
Abs(x) == IF x < 0 THEN 0 - x ELSE x

RECURSIVE GCD(_, _)
GCD(a, b) == IF b = 0 THEN a ELSE GCD(b, a % b)

\* n/d in lowest terms, d > 0.
Rat(n, d) == LET g == GCD(Abs(n), d) IN <<n \div g, d \div g>>

RatAdd(a, b) == Rat((a[1] * b[2]) + (b[1] * a[2]), a[2] * b[2])

RatDiv(a, k) == Rat(a[1], a[2] * k)

RatLeq(a, b) == (a[1] * b[2]) <= (b[1] * a[2])

RatInt(n) == <<n, 1>>

(***************************************************************************)
(* Library functions on cell texts.                                        *)
(***************************************************************************)

\* str.strip(): the texts below carry surrounding whitespace, no other does.
str_strip(s) ==
    CASE s = " " -> ""
      [] s = " 100" -> "100"
      [] OTHER -> s

\* str.replace("T", " "): the texts below contain a "T", no other does.
str_replace_T(s) ==
    CASE s = "2025-10-13T00:15" -> "2025-10-13 00:15"
      [] s = "Time" -> " ime"
      [] OTHER -> s

\* str.replace(",", "."): the text below contains a ",", no other does.
str_replace_comma(s) ==
    CASE s = "12,4" -> "12.4"
      [] OTHER -> s

\* A raised ValueError, and a returned datetime.
NoDate == <<0, 0, 0>>
DatetimeError == [ok |-> FALSE, day |-> NoDate, time |-> <<0, 0, 0>>]
Datetime(d, t) == [ok |-> TRUE, day |-> d, time |-> t]

\* datetime.strptime(text, fmt): the whole text must match the format.
strptime(text, fmt) ==
    CASE fmt = "%Y-%m-%d %H:%M:%S" /\ text = "2025-10-13 00:00:00"
            -> Datetime(<<2025, 10, 13>>, <<0, 0, 0>>)
      [] fmt = "%Y-%m-%d %H:%M:%S" /\ text = "2025-10-15 00:00:00"
            -> Datetime(<<2025, 10, 15>>, <<0, 0, 0>>)
      [] fmt = "%Y-%m-%d %H:%M" /\ text = "2025-10-13 00:15"
            -> Datetime(<<2025, 10, 13>>, <<0, 15, 0>>)
      [] fmt = "%Y-%m-%d %H:%M" /\ text = "2025-10-14 00:00"
            -> Datetime(<<2025, 10, 14>>, <<0, 0, 0>>)
      [] OTHER -> DatetimeError

\* datetime.fromisoformat(text): also accepts a date alone and a "T".
fromisoformat(text) ==
    CASE text = "2025-10-12" -> Datetime(<<2025, 10, 12>>, <<0, 0, 0>>)
      [] text = "2025-10-13 00:00:00" -> Datetime(<<2025, 10, 13>>, <<0, 0, 0>>)
      [] text = "2025-10-15 00:00:00" -> Datetime(<<2025, 10, 15>>, <<0, 0, 0>>)
      [] text = "2025-10-13T00:15" -> Datetime(<<2025, 10, 13>>, <<0, 15, 0>>)
      [] text = "2025-10-13 00:15" -> Datetime(<<2025, 10, 13>>, <<0, 15, 0>>)
      [] text = "2025-10-14 00:00" -> Datetime(<<2025, 10, 14>>, <<0, 0, 0>>)
      [] OTHER -> DatetimeError

\* A raised ValueError, and a returned float.
FloatError == [ok |-> FALSE, val |-> <<0, 1>>]
Float(r) == [ok |-> TRUE, val |-> r]

\* float(text)
float(text) ==
    CASE text = "0" -> Float(RatInt(0))
      [] text = "10" -> Float(RatInt(10))
      [] text = "20" -> Float(RatInt(20))
      [] text = "30" -> Float(RatInt(30))
      [] text = "40" -> Float(RatInt(40))
      [] text = "50" -> Float(RatInt(50))
      [] text = "60" -> Float(RatInt(60))
      [] text = "70" -> Float(RatInt(70))
      [] text = "100" -> Float(RatInt(100))
      [] text = " 100" -> Float(RatInt(100))
      [] text = "200" -> Float(RatInt(200))
      [] text = "300" -> Float(RatInt(300))
      [] text = "500" -> Float(RatInt(500))
      [] text = "-50" -> Float(RatInt(0 - 50))
      [] text = "12.4" -> Float(Rat(124, 10))
      [] OTHER -> FloatError

(***************************************************************************)
(* datetime.date: ordering, weekday(), strftime("%d.%m.%Y").               *)
(***************************************************************************)
IsLeap(y) == (y % 4 = 0) /\ ((y % 100 # 0) \/ (y % 400 = 0))

DaysBeforeYear(y) ==
    ((y - 1) * 365) + ((y - 1) \div 4) - ((y - 1) \div 100) + ((y - 1) \div 400)

DaysBeforeMonth(y, m) ==
    LET cum == <<0, 31, 59, 90, 120, 151, 181, 212, 243, 273, 304, 334>>
    IN  cum[m] + (IF m > 2 /\ IsLeap(y) THEN 1 ELSE 0)

toordinal(d) == DaysBeforeYear(d[1]) + DaysBeforeMonth(d[1], d[2]) + d[3]

\* date.__lt__
DateLess(a, b) == toordinal(a) < toordinal(b)

\* date.weekday(): Monday = 0 .. Sunday = 6
weekday(d) == (toordinal(d) + 6) % 7

Pad2(n) == IF n < 10 THEN "0" \o ToString(n) ELSE ToString(n)

\* d.strftime("%d.%m.%Y")
strftime_dmY(d) == Pad2(d[3]) \o "." \o Pad2(d[2]) \o "." \o ToString(d[1])

FINNISH_WEEKDAYS ==
    <<"maanantai", "tiistai", "keskiviikko", "torstai",
      "perjantai", "lauantai", "sunnuntai">>

(***************************************************************************)
(* The program's functions.                                                *)
(***************************************************************************)

\* parse_timestamp(ts)
parse_timestamp(ts) ==
    LET text == str_replace_T(str_strip(ts))
        a == strptime(text, "%Y-%m-%d %H:%M:%S")
        b == strptime(text, "%Y-%m-%d %H:%M")
    IN  IF a.ok THEN a
        ELSE IF b.ok THEN b
        ELSE fromisoformat(str_strip(ts))

\* to_float(s), the closure of compute_daily_totals
to_float(s) == float(str_replace_comma(s))

\* read_data's filter: "not row or all(not cell.strip() for cell in row)"
is_blank_row(row) ==
    (row = <<>>) \/ (\A c \in 1..Len(row) : str_strip(row[c]) = "")

\* read_data's "[cell.strip() for cell in row]"
strip_cells(row) == [c \in 1..Len(row) |-> str_strip(row[c])]

\* read_data(filename), on the rows csv.reader yields for the file
RECURSIVE read_data(_)
read_data(f) ==
    IF f = <<>> THEN <<>>
    ELSE IF is_blank_row(Head(f)) THEN read_data(Tail(f))
    ELSE <<strip_cells(Head(f))>> \o read_data(Tail(f))

\* is_header_row(row): any exception of parse_timestamp(row[0]) means header
is_header_row(row) ==
    IF Len(row) = 0 THEN TRUE ELSE ~parse_timestamp(row[1]).ok

\* Mutant of remove_header: every leading header-like row is removed.
RECURSIVE remove_header_all_leading(_)
remove_header_all_leading(rs) ==
    IF rs # <<>> /\ is_header_row(rs[1])
    THEN remove_header_all_leading(Tail(rs))
    ELSE rs

\* main's "if rows and is_header_row(rows[0]): rows = rows[1:]"
remove_header(rs) ==
    IF rs # <<>> /\ is_header_row(rs[1]) THEN Tail(rs) ELSE rs

\* to_finnish_number(value): f"{value:.2f}".replace(".", ",").  The value is
\* rounded to the nearest hundredth; on an exact decimal tie Python rounds the
\* binary double, which the inputs below never produce.
to_finnish_number(v) ==
    LET mag == Abs(v[1]) * 100
        q == mag \div v[2]
        r == mag % v[2]
        h == IF 2 * r > v[2] THEN q + 1
             ELSE IF 2 * r = v[2] THEN q + (q % 2)
             ELSE q
    IN  (IF v[1] < 0 THEN "-" ELSE "") \o ToString(h \div 100) \o "," \o Pad2(h % 100)

\* format spec "<n": pad on the right to width n
RECURSIVE ljust(_, _)
ljust(s, n) == IF Len(s) >= n THEN s ELSE ljust(s \o " ", n)

\* format spec ">n": pad on the left to width n
RECURSIVE rjust(_, _)
rjust(s, n) == IF Len(s) >= n THEN s ELSE rjust(" " \o s, n)

(***************************************************************************)
(* dict and defaultdict, as item sequences in insertion order.             *)
(***************************************************************************)
dict_keys(d) == [j \in 1..Len(d) |-> d[j].day]

dict_has(d, k) == \E j \in 1..Len(d) : d[j].day = k

dict_get(d, k) == d[CHOOSE j \in 1..Len(d) : d[j].day = k].vals

\* defaultdict(lambda: [0.0] * 6): a missing key is inserted on first access
ZeroVals == [k \in Channels |-> RatInt(0)]

\* Mutant of defaultdict_touch: a fresh item on every access.
defaultdict_touch_always_new(d, k) ==
    Append(d, [day |-> k, vals |-> ZeroVals])

defaultdict_touch(d, k) ==
    IF dict_has(d, k) THEN d ELSE Append(d, [day |-> k, vals |-> ZeroVals])

\* Mutant of accumulate: "=" for "+=".
accumulate_assign(totals, day, vals) ==
    LET d == defaultdict_touch(totals, day)
    IN  [j \in 1..Len(d) |->
            IF d[j].day = day
            THEN [day |-> day, vals |-> [k \in Channels |-> vals[k].val]]
            ELSE d[j]]

\* "totals_wh[day][0] += c1" ... "totals_wh[day][5] += p3"
accumulate(totals, day, vals) ==
    LET d == defaultdict_touch(totals, day)
    IN  [j \in 1..Len(d) |->
            IF d[j].day = day
            THEN [day |-> day,
                  vals |-> [k \in Channels |-> RatAdd(d[j].vals[k], vals[k].val)]]
            ELSE d[j]]

\* Mutant of fold_row: the timestamp is parsed before the length is checked.
fold_row_timestamp_first(totals, row) ==
    LET dt == IF row = <<>> THEN DatetimeError ELSE parse_timestamp(row[1]) IN
    IF ~dt.ok
    THEN [status |-> "ValueError: timestamp", totals |-> totals]
    ELSE IF Len(row) < MinFields
    THEN [status |-> "continue", totals |-> totals]
    ELSE LET vals == [k \in Channels |-> to_float(row[k + 1])] IN
         IF \E k \in Channels : ~vals[k].ok
         THEN [status |-> "ValueError: float", totals |-> totals]
         ELSE [status |-> "added",
               totals |-> accumulate(totals, dt.day, vals)]

\* Mutant of fold_row: a row with an unparseable timestamp is skipped.
fold_row_skip_bad_timestamp(totals, row) ==
    IF Len(row) < MinFields
    THEN [status |-> "continue", totals |-> totals]
    ELSE LET dt == parse_timestamp(row[1]) IN
         IF ~dt.ok
         THEN [status |-> "continue", totals |-> totals]
         ELSE LET vals == [k \in Channels |-> to_float(row[k + 1])] IN
              IF \E k \in Channels : ~vals[k].ok
              THEN [status |-> "ValueError: float", totals |-> totals]
              ELSE [status |-> "added",
                    totals |-> accumulate(totals, dt.day, vals)]

\* Mutant of fold_row: each channel is added as soon as it is converted,
\* so the channels before the first non-numeric field are added.
add_until_error(totals, day, row) ==
    LET bad == { k \in Channels : ~to_float(row[k + 1]).ok }
        d == defaultdict_touch(totals, day)
    IN  [status |-> IF bad = {} THEN "added" ELSE "ValueError: float",
         totals |->
            [j \in 1..Len(d) |->
                IF d[j].day = day
                THEN [day |-> day,
                      vals |-> [k \in Channels |->
                                  IF \A b \in bad : k < b
                                  THEN RatAdd(d[j].vals[k], to_float(row[k + 1]).val)
                                  ELSE d[j].vals[k]]]
                ELSE d[j]]]

fold_row_partial_add(totals, row) ==
    IF Len(row) < MinFields
    THEN [status |-> "continue", totals |-> totals]
    ELSE LET dt == parse_timestamp(row[1]) IN
         IF ~dt.ok
         THEN [status |-> "ValueError: timestamp", totals |-> totals]
         ELSE add_until_error(totals, dt.day, row)

\* Mutant of fold_row: every field after the timestamp is converted.
fold_row_all_columns(totals, row) ==
    IF Len(row) < MinFields
    THEN [status |-> "continue", totals |-> totals]
    ELSE LET dt == parse_timestamp(row[1]) IN
         IF ~dt.ok
         THEN [status |-> "ValueError: timestamp", totals |-> totals]
         ELSE LET vals == [k \in 1..(Len(row) - 1) |-> to_float(row[k + 1])] IN
              IF \E k \in 1..(Len(row) - 1) : ~vals[k].ok
              THEN [status |-> "ValueError: float", totals |-> totals]
              ELSE [status |-> "added",
                    totals |-> accumulate(totals, dt.day, vals)]

\* One iteration of compute_daily_totals' loop over rows.
fold_row(totals, row) ==
    IF Len(row) < MinFields
    THEN [status |-> "continue", totals |-> totals]
    ELSE LET dt == parse_timestamp(row[1]) IN
         IF ~dt.ok
         THEN [status |-> "ValueError: timestamp", totals |-> totals]
         ELSE LET vals == [k \in Channels |-> to_float(row[k + 1])] IN
              IF \E k \in Channels : ~vals[k].ok
              THEN [status |-> "ValueError: float", totals |-> totals]
              ELSE [status |-> "added",
                    totals |-> accumulate(totals, dt.day, vals)]

Raises(status) == status \in {"ValueError: timestamp", "ValueError: float"}

\* Mutant of to_kwh: the wrong conversion factor.
to_kwh_wrong_factor(totals) ==
    [j \in 1..Len(totals) |->
        [day |-> totals[j].day,
         vals |-> [k \in Channels |-> RatDiv(totals[j].vals[k], 100)]]]

\* "Convert Wh -> kWh": totals_kwh[d] = (vals[0] / 1000.0, ..., vals[5] / 1000.0)
to_kwh(totals) ==
    [j \in 1..Len(totals) |->
        [day |-> totals[j].day,
         vals |-> [k \in Channels |-> RatDiv(totals[j].vals[k], WhPerKwh)]]]

\* compute_daily_totals(rows), as one function
RECURSIVE fold_rows(_, _)
fold_rows(totals, rs) ==
    IF rs = <<>> THEN [status |-> "added", totals |-> totals]
    ELSE LET r == fold_row(totals, Head(rs)) IN
         IF Raises(r.status) THEN r ELSE fold_rows(r.totals, Tail(rs))

compute_daily_totals(rs) ==
    LET r == fold_rows(<<>>, rs) IN
    IF Raises(r.status)
    THEN [ok |-> FALSE, error |-> r.status, daily |-> <<>>]
    ELSE [ok |-> TRUE, error |-> "", daily |-> to_kwh(r.totals)]

\* sorted(daily.keys())
RECURSIVE insert_sorted(_, _)
insert_sorted(s, d) ==
    IF s = <<>> THEN <<d>>
    ELSE IF DateLess(d, Head(s)) THEN <<d>> \o s
    ELSE <<Head(s)>> \o insert_sorted(Tail(s), d)

RECURSIVE sorted(_)
sorted(keys) ==
    IF keys = <<>> THEN <<>>
    ELSE insert_sorted(sorted(SubSeq(keys, 1, Len(keys) - 1)), keys[Len(keys)])

\* Mutant of report_order: the dict's own (insertion) order.
report_order_insertion(daily) == dict_keys(daily)

\* The order in which print_report visits the dates.
report_order(daily) == sorted(dict_keys(daily))

\* One printed line; "day" records the date a data line was printed for
\* (NoDate for the banner lines).
Line(text, day) == [text |-> text, day |-> day]

Banner ==
    << Line("Week 42 electricity consumption and production (kWh, by phase)", NoDate),
       Line("", NoDate),
       Line("Day          Date        Consumption [kWh]               Production [kWh]", NoDate),
       Line("            (dd.mm.yyyy)  v1      v2      v3             v1     v2     v3", NoDate),
       Line("---------------------------------------------------------------------------", NoDate) >>

\* The body of print_report's loop for date d.
report_line(daily, d) ==
    LET v == dict_get(daily, d)
        s == [k \in Channels |-> to_finnish_number(v[k])]
    IN  Line(ljust(FINNISH_WEEKDAYS[weekday(d) + 1], 12) \o " "
               \o ljust(strftime_dmY(d), 10) \o "   "
               \o rjust(s[1], 6) \o "  " \o rjust(s[2], 6) \o "  " \o rjust(s[3], 6)
               \o "         "
               \o rjust(s[4], 6) \o " " \o rjust(s[5], 6) \o " " \o rjust(s[6], 6),
             d)

\* print_report(daily): everything it writes to standard output
print_report(daily) ==
    LET order == report_order(daily)
    IN  Banner \o [j \in 1..Len(order) |-> report_line(daily, order[j])]

\* main(), as one function of the file's rows: how it ends, and the mapping
\* it hands to print_report when it gets there
main_result(f) ==
    LET r == compute_daily_totals(remove_header(read_data(f))) IN
    IF r.ok
    THEN [status |-> "done", error |-> "", daily |-> r.daily]
    ELSE [status |-> "raised", error |-> r.error, daily |-> <<>>]

(***************************************************************************)
(* The inputs: every file of at most MaxRows rows drawn from RowPool.      *)
(***************************************************************************)
RowPool ==
    { <<"Time", "c1", "c2", "c3", "p1", "p2", "p3">>,
      <<"2025-10-13 00:00:00", "100", "200", "300", "50", "60", "70">>,
      <<"2025-10-13T00:15", " 100", "12,4", "0", "-50", "60", "70">>,
      <<"2025-10-14 00:00", "500", "0", "0", "0", "0", "0">>,
      <<"2025-10-12", "10", "20", "30", "40", "50", "60", "note">>,
      <<"2025-10-15 00:00:00", "100">>,
      <<"oops", "x">>,
      <<"13.10.2025 00:00", "10", "20", "30", "40", "50", "60">>,
      <<"2025-10-14 00:00", "500", "0", "x", "0", "0", "0">>,
      <<"2025-10-15 00:00:00", "0", "0", "0", "0", "0", "abc">>,
      <<"", "", "", "", "", "", "", "x">>,
      <<"", " ", "", "", "", "", "">>,
      <<>> }

Files == UNION { [1..n -> RowPool] : n \in 0..MaxRows }

(***************************************************************************)
(* main() as a state machine; pc names the statement about to run.         *)
(***************************************************************************)
Init ==
    /\ file \in Files
    /\ pc = "read_data"
    /\ rows = <<>>
    /\ i = 1
    /\ totals_wh = <<>>
    /\ daily_totals = <<>>
    /\ output = <<>>
    /\ error = ""

\* main: rows = read_data("week42.csv")
ReadData ==
    /\ pc = "read_data"
    /\ rows' = read_data(file)
    /\ pc' = "remove_header"
    /\ UNCHANGED <<file, i, totals_wh, daily_totals, output, error>>

\* main: if rows and is_header_row(rows[0]): rows = rows[1:]
\* followed by the call of compute_daily_totals (totals_wh = defaultdict(...))
RemoveHeader ==
    /\ pc = "remove_header"
    /\ rows' = remove_header(rows)
    /\ i' = 1
    /\ totals_wh' = <<>>
    /\ pc' = "for_row"
    /\ UNCHANGED <<file, daily_totals, output, error>>

\* Mutant of ForRow: the line of a date is printed as its row is folded.
ForRow_streaming ==
    /\ pc = "for_row"
    /\ i <= Len(rows)
    /\ LET r == fold_row(totals_wh, rows[i]) IN
         /\ totals_wh' = r.totals
         /\ IF Raises(r.status)
            THEN pc' = "raised" /\ error' = r.status /\ i' = i /\ output' = output
            ELSE /\ pc' = "for_row" /\ error' = error /\ i' = i + 1
                 /\ output' = IF r.status = "added"
                              THEN Append(output,
                                     report_line(to_kwh(r.totals),
                                                 parse_timestamp(rows[i][1]).day))
                              ELSE output
    /\ UNCHANGED <<file, rows, daily_totals>>

\* compute_daily_totals: one iteration of "for row in rows"; an exception
\* leaves the function and main, and ends the process.
ForRow ==
    /\ pc = "for_row"
    /\ i <= Len(rows)
    /\ LET r == fold_row(totals_wh, rows[i]) IN
         /\ totals_wh' = r.totals
         /\ IF Raises(r.status)
            THEN pc' = "raised" /\ error' = r.status /\ i' = i
            ELSE pc' = "for_row" /\ error' = error /\ i' = i + 1
    /\ UNCHANGED <<file, rows, daily_totals, output>>

\* compute_daily_totals: after the loop, convert and return to main
ConvertAndReturn ==
    /\ pc = "for_row"
    /\ i > Len(rows)
    /\ daily_totals' = to_kwh(totals_wh)
    /\ pc' = "print_report"
    /\ UNCHANGED <<file, rows, i, totals_wh, output, error>>

\* main: print_report(daily_totals)
PrintReport ==
    /\ pc = "print_report"
    /\ output' = output \o print_report(daily_totals)
    /\ pc' = "done"
    /\ UNCHANGED <<file, rows, i, totals_wh, daily_totals, error>>

Next == ReadData \/ RemoveHeader \/ ForRow \/ ConvertAndReturn \/ PrintReport

Spec == Init /\ [][Next]_vars

\* The state machine ends where main_result says main ends.
RunMatchesFunction ==
    pc \in {"done", "raised"} =>
        LET r == main_result(file) IN
        /\ pc = r.status
        /\ error = r.error
        /\ output = (IF pc = "done" THEN print_report(r.daily) ELSE <<>>)
        /\ (pc = "done" => daily_totals = r.daily)

\* The report of the end-to-end scenario, as the program prints it.
ScenarioReport ==
    (pc = "done" /\ file = << <<"2025-10-13 00:00:00", "100", "200", "300", "50", "60", "70">>,
                              <<"2025-10-14 00:00", "500", "0", "0", "0", "0", "0">> >>)
    => /\ Len(output) = 7
       /\ output[6].text = "maanantai    13.10.2025     0,10    0,20    0,30           0,05   0,06   0,07"
       /\ output[7].text = "tiistai      14.10.2025     0,50    0,00    0,00           0,00   0,00   0,00"

(***************************************************************************)
(* Vocabulary of the properties.                                           *)
(***************************************************************************)
Finished == pc \in {"done", "raised"}

AfterHeader == pc \notin {"read_data", "remove_header"}

TimestampOk(row) == row # <<>> /\ parse_timestamp(row[1]).ok

\* A row compute_daily_totals accepts the shape of.
FullRow(row) == Len(row) >= 7

\* The date a row with a parseable timestamp falls on.
DayOf(row) == parse_timestamp(row[1]).day

\* The dates of the rows of rs that have at least 7 fields.
DatesOf(rs) ==
    { DayOf(rs[j]) : j \in { n \in 1..Len(rs) : FullRow(rs[n]) /\ TimestampOk(rs[n]) } }

\* The sum of field k over the rows of rs with at least 7 fields on date D.
RECURSIVE SumField(_, _, _)
SumField(rs, D, k) ==
    IF rs = <<>> THEN RatInt(0)
    ELSE LET row == rs[Len(rs)]
             rest == SumField(SubSeq(rs, 1, Len(rs) - 1), D, k)
         IN  IF FullRow(row) /\ TimestampOk(row) /\ DayOf(row) = D
             THEN RatAdd(rest, to_float(row[k + 1]).val)
             ELSE rest

\* d holds exactly one item per date of S and no other.
KeysAre(d, S) ==
    /\ Len(d) = Cardinality(S)
    /\ { d[j].day : j \in 1..Len(d) } = S

RemoveAt(s, j) == SubSeq(s, 1, j - 1) \o SubSeq(s, j + 1, Len(s))

Least(S) == CHOOSE n \in S : \A m \in S : n <= m

\* The dates of the report's per-date lines, in printed order.
DateLines == SubSeq(output, Len(Banner) + 1, Len(output))

PrintedDates == [j \in 1..Len(DateLines) |-> DateLines[j].day]

(***************************************************************************)
(* C1.  For every input whose run completes, the total that                *)
(* compute_daily_totals reports for date D and channel k is the sum of     *)
(* field k over exactly the rows (after header stripping) that have at     *)
(* least 7 fields and whose timestamp falls on D, divided by 1000; there   *)
(* is an entry for exactly these dates; and the division is applied once,  *)
(* after the fold: while rows are folded the sums are in watt-hours.       *)
(***************************************************************************)
C1_TotalsAreSums ==
    /\ pc \in {"print_report", "done"} =>
          /\ KeysAre(daily_totals, DatesOf(rows))
          /\ \A D \in DatesOf(rows) : \A k \in Channels :
                dict_get(daily_totals, D)[k] = RatDiv(SumField(rows, D, k), 1000)
    /\ (pc = "for_row" /\ AfterHeader) =>
          LET folded == SubSeq(rows, 1, i - 1) IN
          /\ KeysAre(totals_wh, DatesOf(folded))
          /\ \A D \in DatesOf(folded) : \A k \in Channels :
                dict_get(totals_wh, D)[k] = SumField(folded, D, k)

\* A completed run with two dates, one of them fed by two rows.
C1_Witness ==
    /\ pc = "done"
    /\ Cardinality(DatesOf(rows)) >= 2
    /\ \E a, b \in 1..Len(rows) :
          /\ a < b
          /\ FullRow(rows[a]) /\ FullRow(rows[b])
          /\ DayOf(rows[a]) = DayOf(rows[b])
          /\ dict_get(daily_totals, DayOf(rows[a]))[1] # RatInt(0)

(***************************************************************************)
(* C2.  print_report emits the per-date lines in strictly ascending order  *)
(* of date, so that no date is on two lines, whatever the order of the     *)
(* rows: every permutation of the rows that were aggregated yields the     *)
(* same sequence of dates.                                                 *)
(***************************************************************************)
RowOrders(n) ==
    { p \in [1..n -> 1..n] : \A a, b \in 1..n : p[a] = p[b] => a = b }

Permuted(rs, p) == [j \in 1..Len(rs) |-> rs[p[j]]]

DatesPrintedFor(rs) ==
    report_order(compute_daily_totals(rs).daily)

C2_ReportAscending ==
    pc = "done" =>
        /\ \A a, b \in 1..Len(PrintedDates) :
              a < b => DateLess(PrintedDates[a], PrintedDates[b])
        /\ \A p \in RowOrders(Len(rows)) :
              DatesPrintedFor(Permuted(rows, p)) = PrintedDates

\* A report whose dates were first met in another order than the printed one.
C2_Witness ==
    /\ pc = "done"
    /\ Len(PrintedDates) >= 2
    /\ dict_keys(daily_totals) # PrintedDates

(***************************************************************************)
(* C3.  main removes a first row whose first field is not parseable as a   *)
(* timestamp, and that row contributes to no total; a first row whose      *)
(* first field is parseable is kept and aggregated like any other row;     *)
(* only the first row is examined and at most one row is removed.          *)
(***************************************************************************)
C3_HeaderOnlyFirstRow ==
    AfterHeader =>
        LET r == read_data(file)
            kept == IF r # <<>> /\ ~TimestampOk(r[1]) THEN Tail(r) ELSE r
        IN  /\ rows = kept
            /\ Len(r) - Len(rows) <= 1
            /\ pc = "done" =>
                  /\ KeysAre(daily_totals, DatesOf(kept))
                  /\ \A D \in DatesOf(kept) : \A k \in Channels :
                        dict_get(daily_totals, D)[k]
                            = RatDiv(SumField(kept, D, k), 1000)

\* A completed run whose header was removed while the next row, whose first
\* field is no timestamp either, stayed.
C3_Witness ==
    /\ pc = "done"
    /\ LET r == read_data(file) IN
          /\ Len(r) >= 3
          /\ ~TimestampOk(r[1])
          /\ FullRow(r[1])
          /\ ~TimestampOk(r[2])
          /\ rows = Tail(r)
    /\ daily_totals # <<>>

(***************************************************************************)
(* C4.  As stated: a row with fewer than 7 fields, at any position of the  *)
(* input and whatever its fields hold, does not abort the run and leaves   *)
(* the totals those of the same input with that row removed.               *)
(***************************************************************************)
C4_Original ==
    Finished =>
        \A j \in 1..Len(file) :
            Len(file[j]) < 7 =>
                LET without == main_result(RemoveAt(file, j)) IN
                /\ pc = without.status
                /\ pc = "done" => daily_totals = without.daily

(***************************************************************************)
(* C4, amended.  A row with fewer than 7 fields among the rows handed to   *)
(* compute_daily_totals (the rows left after main's header removal), at    *)
(* any position and whatever its fields hold, is never the row the run     *)
(* aborts at, and the outcome (the abort and its error, or the totals) is  *)
(* that of the same rows with that row removed.                            *)
(***************************************************************************)
C4_ShortRowIgnoredByAggregator ==
    (AfterHeader /\ Finished) =>
        /\ pc = "raised" => Len(rows[i]) >= 7
        /\ \A j \in 1..Len(rows) :
              Len(rows[j]) < 7 =>
                  LET without == compute_daily_totals(RemoveAt(rows, j)) IN
                  /\ (pc = "done") = without.ok
                  /\ pc = "done" => daily_totals = without.daily
                  /\ pc = "raised" => error = without.error

\* A completed run that met a short row with an unparseable first field and
\* a short row with a timestamp, and still reports a date.
C4_Witness ==
    /\ pc = "done"
    /\ daily_totals # <<>>
    /\ \E a, b \in 1..Len(rows) :
          /\ Len(rows[a]) < 7 /\ ~TimestampOk(rows[a])
          /\ Len(rows[b]) < 7 /\ TimestampOk(rows[b])

(***************************************************************************)
(* C5.  As stated: if any row read from the file has a first field that    *)
(* matches none of the timestamp formats, the run aborts instead of        *)
(* skipping that row and completing.  Stated here of the rows other than   *)
(* a removed header, which the claim's "any row" covers as well.           *)
(***************************************************************************)
C5_Original ==
    (AfterHeader /\ \E j \in 1..Len(rows) : ~TimestampOk(rows[j]))
        => pc # "done"

(***************************************************************************)
(* C5, amended.  If any row left after main's header removal has at least  *)
(* 7 fields and a first field that matches none of the timestamp formats,  *)
(* the run never completes: it is not skipped, the loop never passes the   *)
(* first such row, the run ends with a parse error, and the error raised   *)
(* at that row is the timestamp's.                                         *)
(***************************************************************************)
BadTimestampRows ==
    { j \in 1..Len(rows) : FullRow(rows[j]) /\ ~TimestampOk(rows[j]) }

C5_BadTimestampAborts ==
    (AfterHeader /\ BadTimestampRows # {}) =>
        /\ pc \in {"for_row", "raised"}
        /\ i <= Least(BadTimestampRows)
        /\ (pc = "for_row" /\ i = Least(BadTimestampRows)) => ENABLED ForRow
        /\ pc = "raised" =>
              /\ error \in {"ValueError: timestamp", "ValueError: float"}
              /\ i = Least(BadTimestampRows) => error = "ValueError: timestamp"

\* A run aborted by the timestamp of a row that is not the first of the file,
\* after rows were folded.
C5_Witness ==
    /\ pc = "raised"
    /\ error = "ValueError: timestamp"
    /\ i >= 2
    /\ totals_wh # <<>>

(***************************************************************************)
(* C6.  As stated: while compute_daily_totals folds rows, each of the six  *)
(* accumulated sums of every date is non-decreasing: no step lowers a sum  *)
(* a date already has, for every accepted numeric input.                   *)
(***************************************************************************)
C6_Original ==
    [][\A j \in 1..Len(totals_wh) : \A k \in Channels :
          /\ j <= Len(totals_wh')
          /\ RatLeq(totals_wh[j].vals[k], totals_wh'[j].vals[k])]_vars

(***************************************************************************)
(* C6, amended.  While compute_daily_totals folds rows, a date's entry is  *)
(* never removed, and folding in one more record never lowers a channel's  *)
(* sum for which the record's value is non-negative: a sum is lowered      *)
(* only by the fold of a row whose value for that channel is negative.     *)
(***************************************************************************)
C6_NonNegativeNeverLowers ==
    [][\A j \in 1..Len(totals_wh) : \A k \in Channels :
          /\ j <= Len(totals_wh')
          /\ totals_wh'[j].day = totals_wh[j].day
          /\ \/ RatLeq(totals_wh[j].vals[k], totals_wh'[j].vals[k])
             \/ /\ pc = "for_row"
                /\ i <= Len(rows)
                /\ FullRow(rows[i])
                /\ DayOf(rows[i]) = totals_wh[j].day
                /\ to_float(rows[i][k + 1]).val[1] < 0]_vars

\* A date's sums after a second record for it was folded in, one channel
\* having grown.
C6_Witness ==
    /\ pc = "for_row"
    /\ \E a, b \in 1..(i - 1) :
          /\ a < b
          /\ FullRow(rows[a]) /\ FullRow(rows[b])
          /\ DayOf(rows[a]) = DayOf(rows[b])
          /\ to_float(rows[b][2]).val[1] > 0
          /\ dict_has(totals_wh, DayOf(rows[a]))

(***************************************************************************)
(* C7.  As stated: in a completed run the mapping has, and the report      *)
(* prints, exactly one entry for each distinct date found in the input's   *)
(* data rows: every date whose timestamp occurs in the input gets a line,  *)
(* and no other date does.                                                 *)
(***************************************************************************)
TimestampDates ==
    { DayOf(rows[j]) : j \in { n \in 1..Len(rows) : TimestampOk(rows[n]) } }

C7_Original ==
    pc = "done" =>
        /\ KeysAre(daily_totals, TimestampDates)
        /\ Len(PrintedDates) = Cardinality(TimestampDates)
        /\ { PrintedDates[j] : j \in 1..Len(PrintedDates) } = TimestampDates

(***************************************************************************)
(* C7, amended.  In a completed run the mapping has, and the report        *)
(* prints, exactly one entry for each distinct date found in the rows      *)
(* that have at least 7 fields (after header removal), and no other: the   *)
(* date of a timestamp that occurs only in rows with fewer than 7 fields   *)
(* gets no line.                                                           *)
(***************************************************************************)
C7_OneLinePerAggregatedDate ==
    pc = "done" =>
        /\ KeysAre(daily_totals, DatesOf(rows))
        /\ Len(PrintedDates) = Cardinality(DatesOf(rows))
        /\ { PrintedDates[j] : j \in 1..Len(PrintedDates) } = DatesOf(rows)

\* A report with a date fed by two rows, and a timestamp of a short row
\* whose date has no line.
C7_Witness ==
    /\ pc = "done"
    /\ \E a, b \in 1..Len(rows) :
          /\ a < b
          /\ FullRow(rows[a]) /\ FullRow(rows[b])
          /\ DayOf(rows[a]) = DayOf(rows[b])
    /\ \E D \in TimestampDates : \A j \in 1..Len(PrintedDates) : PrintedDates[j] # D

(***************************************************************************)
(* C8.  There is no partial-result mode: when aggregation fails (a bad     *)
(* timestamp or a bad numeric field, at any row), the run aborts at that   *)
(* row and nothing has been printed, neither the banner nor a line for     *)
(* the rows already folded; output exists only once every row has been     *)
(* aggregated.                                                             *)
(***************************************************************************)
C8_NoPartialOutput ==
    /\ pc = "raised" =>
          /\ output = <<>>
          /\ i <= Len(rows)
          /\ Raises(fold_row(totals_wh, rows[i]).status)
    /\ output # <<>> =>
          /\ pc = "done"
          /\ i = Len(rows) + 1
          /\ compute_daily_totals(rows).ok

\* A run aborted at a later row, after rows had been folded successfully.
C8_Witness ==
    /\ pc = "raised"
    /\ i >= 3
    /\ Len(totals_wh) >= 2

(***************************************************************************)
(* C9.  A numeric parse error is fatal: if a row (after header removal)    *)
(* with at least 7 fields and a parseable timestamp has a field among      *)
(* 1..6 that is not numeric after replacing "," by ".", the run never      *)
(* completes; the row is not skipped (the loop never passes the first      *)
(* such row) and not partially added: when the run aborts there, the sums  *)
(* are those of the rows before it, and it has created no date entry.      *)
(***************************************************************************)
NonNumericRows ==
    { j \in 1..Len(rows) :
        /\ FullRow(rows[j])
        /\ TimestampOk(rows[j])
        /\ \E k \in Channels : ~to_float(rows[j][k + 1]).ok }

C9_BadNumberAbortsWhole ==
    (AfterHeader /\ NonNumericRows # {}) =>
        /\ pc \in {"for_row", "raised"}
        /\ i <= Least(NonNumericRows)
        /\ (pc = "for_row" /\ i = Least(NonNumericRows)) => ENABLED ForRow
        /\ (pc = "raised" /\ i = Least(NonNumericRows)) =>
              LET before == SubSeq(rows, 1, i - 1) IN
              /\ error = "ValueError: float"
              /\ KeysAre(totals_wh, DatesOf(before))
              /\ \A D \in DatesOf(before) : \A k \in Channels :
                    dict_get(totals_wh, D)[k] = SumField(before, D, k)

\* A run aborted by a non-numeric field that follows numeric ones in its
\* row, at a row whose date already has sums.
C9_Witness ==
    /\ pc = "raised"
    /\ error = "ValueError: float"
    /\ i >= 2
    /\ to_float(rows[i][2]).ok
    /\ dict_has(totals_wh, DayOf(rows[i]))

(***************************************************************************)
(* C10.  As stated: for every row with 7 or more fields the run's outcome  *)
(* (the abort, or the totals) depends only on the row's first 7 fields:    *)
(* appending, removing or changing the fields at index 7 and beyond never  *)
(* changes the totals and never causes or prevents an abort.               *)
(***************************************************************************)
ExtraTails == { <<>>, <<"">>, <<"note">>, <<"70", "x">> }

\* The file with the fields at index 7 and beyond of row j replaced by t.
WithTail(f, j, t) == [f EXCEPT ![j] = SubSeq(f[j], 1, 7) \o t]

SameOutcomeAs(r) ==
    /\ pc = r.status
    /\ error = r.error
    /\ pc = "done" => daily_totals = r.daily

C10_Original ==
    Finished =>
        \A j \in 1..Len(file) :
            Len(file[j]) >= 7 =>
                \A t \in ExtraTails : SameOutcomeAs(main_result(WithTail(file, j, t)))

(***************************************************************************)
(* C10, amended.  For every row, as the CSV reader yields it, with 7 or    *)
(* more fields of which the first 7 are not all blank, the run's outcome   *)
(* depends only on the row's first 7 fields: appending, removing or        *)
(* changing the fields at index 7 and beyond never changes the totals and  *)
(* never causes or prevents an abort.  (A row whose first 7 fields are     *)
(* all blank is dropped by read_data exactly when the fields beyond them   *)
(* are blank too.)                                                         *)
(***************************************************************************)
C10_TrailingColumnsIgnored ==
    Finished =>
        \A j \in 1..Len(file) :
            (Len(file[j]) >= 7 /\ \E c \in 1..7 : str_strip(file[j][c]) # "") =>
                \A t \in ExtraTails : SameOutcomeAs(main_result(WithTail(file, j, t)))

\* A completed run that aggregated a row carrying a non-numeric eighth field.
C10_Witness ==
    /\ pc = "done"
    /\ \E j \in 1..Len(rows) :
          /\ Len(rows[j]) >= 8
          /\ ~to_float(rows[j][8]).ok
          /\ dict_has(daily_totals, DayOf(rows[j]))

====
